---------------------------- MODULE Spec2Model ----------------------------
(***************************************************************************)
(* The two training loops of NAS-Bench-201/run_lib.py, scorenet_train and  *)
(* meta_surrogate_train, as one state machine.  One action per statement   *)
(* group of the loop body: restore, batch pull, train step, evaluation     *)
(* (one action per batch), best-flag update, checkpoint, snapshot          *)
(* sampling, write_log, reset, save_log.  A process may be killed at any   *)
(* point (Crash) and the function called again (Rerun); only the           *)
(* checkpoint file survives.                                               *)
(*                                                                         *)
(* Collaborators that are not part of run_lib.py (the step functions of    *)
(* losses, the EMA class, checkpoint I/O of utils, the Logger) are         *)
(* modelled from their contracts and kept in operators of their own.       *)
(***************************************************************************)
EXTENDS Integers, Sequences, FiniteSets, TLC

\* ------------------------------------------------------------- bounds --
\* config.training.n_iters ranges over 0..MaxIters
MaxIters == 3

\* config.eval.num_samples ranges over 1..MaxSamples
MaxSamples == 5
\* config.eval.batch_size ranges over 1..MaxBatch
MaxBatch == 3

\* config.training.snapshot_freq and config.training.eval_freq
Freqs == {1, 2, 3}
\* model weights, abstracted to three points
Weights == {0, 1, 2}

\* ---------------------------------------------------------- constants --
\* min_test_loss = 1e05
MinTestLossInit == 100000
\* max_eval_p_corr = -1, correlations are kept in tenths
MaxEvalPCorrInit == -10

\* sampling_eps = 1e-3 and sampling_eps = 1e-5, in units of 1e-5
VpSamplingEps == 100
VeSamplingEps == 1

ModelTypes == {"scorenet", "meta_surrogate"}

\* values of config.training.sde: the two supported kinds in two spellings
\* and one the code does not know
Kinds == {"vpsde", "VPSDE", "vesde", "VESDE", "subvpsde"}

\* values of config.model.num_scales
NumScales == {100, 1000}

\* datasets_nas.get_dataloader: the batches of the three loaders, by index
TrainLoader == <<0, 1, 2>>
EvalLoader == <<0>>
TestLoader == <<0, 1>>

\* the element dict handed to write_log on evaluation steps
element(mt) ==
    IF mt = "scorenet"
    THEN {"training_loss", "eval_loss", "test_loss", "r_valid", "r_unique", "r_novel"}
    ELSE {"training_loss", "eval_loss", "eval_p_corr", "eval_s_corr",
          "r_valid", "r_unique", "r_novel"}

SampleKeys == {"r_valid", "r_unique", "r_novel"}

VARIABLES
    model_type,       \* key of run_train_dict: which loop runs
    config,           \* [n_iters, snapshot_freq, eval_freq, snapshot_sampling, resume]
    resume_file,      \* the checkpoint found at the resume path, or NoCkpt
    last_ckpt,        \* the most recent checkpoint written to checkpoint_dir
    pc,               \* position of the process in the function
    state,            \* dict(optimizer, model, ema, step)
    collected_params, \* ema.collected_params, set by ema.store
    score_model,      \* meta-surrogate: weights of the frozen score model
    initial_step,
    step,             \* the loop variable
    train_iter,       \* number of batches already taken from the iterator
    batch,            \* the batch of the current iteration
    loader_i,         \* position in eval_loader / test_loader
    is_best,
    min_test_loss,
    max_eval_p_corr,
    logs,             \* logger.logs: keys updated since reset, test_loss meter
    log_file,         \* one record per write_log call of this run
    log_saved,        \* number of save_log calls of this run
    ckpt_calls,       \* history: steps of the save_checkpoint calls of this run
    train_steps,      \* history: loop steps whose train step ran in this run
    prev_best,        \* history: best score over the earlier evaluations
    evaluated,        \* history: an evaluation completed in this run
    improved,         \* history: the last evaluation beat prev_best strictly
    mode,             \* the entry point called: train(config) or evaluate(config)
    score_config,     \* torch.load(config.scorenet_ckpt_path)['config']
    sde,              \* the noise schedule built by "Setup SDEs", or NoSde
    sampling_eps,     \* in units of 1e-5; 0 while unset
    train_step_fn,    \* the step functions built from sde, or NoStepFn
    sampling_fn,      \* the sampler built from sde and sampling_eps, or NoSamplingFn
    num_sampling_rounds,
    round,            \* scorenet_evaluate: sampling rounds done
    all_samples,      \* scorenet_evaluate: the descriptors drawn so far
    arch_list         \* the list handed to the metric evaluator, empty before

\* what a call is given: the entry point and the config stored with the
\* pre-trained score network
Inputs == <<mode, score_config>>

\* the locals of the set-up part of the three functions
SetupLocals == <<sde, sampling_eps, train_step_fn, sampling_fn>>

\* the locals of the sampling part of scorenet_evaluate
EvalLocals == <<num_sampling_rounds, round, all_samples, arch_list>>

\* the config of a call and the checkpoint files around it
RunInputs == <<Inputs, model_type, config, resume_file, last_ckpt>>

\* the locals of the training loops proper, the logger apart
LoopLocals == <<state, collected_params, initial_step, step, train_iter, batch,
                loader_i, is_best, min_test_loss, max_eval_p_corr, ckpt_calls,
                train_steps, prev_best, evaluated, improved>>

vars == <<model_type, config, resume_file, last_ckpt, pc, state,
          collected_params, score_model, initial_step, step, train_iter,
          batch, loader_i, is_best, min_test_loss, max_eval_p_corr, logs,
          log_file, log_saved, ckpt_calls, train_steps, prev_best,
          evaluated, improved, mode, score_config, sde, sampling_eps,
          train_step_fn, sampling_fn, num_sampling_rounds, round,
          all_samples, arch_list>>

\* ------------------------------------------------------- collaborators --
NoCkpt == [tag |-> -1, save_step |-> -1, is_best |-> FALSE,
           state |-> [optimizer |-> 0, model |-> 0, ema |-> 0, step |-> 0]]

\* state = dict(optimizer=optimizer, model=score_model, ema=ema, step=0, ...)
InitState == [optimizer |-> 0, model |-> 0, ema |-> 0, step |-> 0]

\* loss of a model on a batch: weights 0 sit at the sentinel, better weights lower
Loss(w, b) == IF w = 0 THEN MinTestLossInit ELSE 2 * (Cardinality(Weights) - w) + b

\* pearsonr of predictions and labels over the eval loader, in tenths
PCorr(w) == IF w = 0 THEN MaxEvalPCorrInit ELSE 3 * w

\* ExponentialMovingAverage.update: the shadow moves toward the live weights
EmaUpdate(e, w) == IF e < w THEN e + 1 ELSE IF e > w THEN e - 1 ELSE e

\* losses.get_step_fn(train=...)(state, batch); g is the outcome of the
\* optimizer update.  Returns the new state dict and the loss.
step_fn(train, st, b, g, has_ema) ==
    IF train
    THEN [state |-> [optimizer |-> st.optimizer + 1,
                     model |-> g,
                     ema |-> IF has_ema THEN EmaUpdate(st.ema, g) ELSE st.ema,
                     step |-> st.step + 1],
          loss |-> Loss(st.model, b)]
    ELSE [state |-> st, loss |-> Loss(st.model, b)]

\* utils.restore_checkpoint(path, state, device, resume)
restore_checkpoint(file, st, resume) ==
    IF ~resume \/ file = NoCkpt THEN st ELSE file.state

\* utils.save_checkpoint(dir, state, step, save_step, is_best): the file written
save_checkpoint(st, s, save_step, best) ==
    [tag |-> s, save_step |-> save_step, is_best |-> best, state |-> st]

\* logger.update(key, v)
logger_update(l, key) == [l EXCEPT !.keys = @ \cup {key}]

logger_update_test(l, v) ==
    [l EXCEPT !.keys = @ \cup {"test_loss"}, !.test_sum = @ + v, !.test_n = @ + 1]

\* logger.reset()
EmptyLogs == [keys |-> {}, test_sum |-> 0, test_n |-> 0]

\* ------------------------------------------------------------- helpers --
HasEma == model_type = "scorenet"

\* the condition of line 191 with the final-step clause bound under the "and"
IsCheckpointStep_AndBindsAll(s, f, n) == s # 0 /\ (s % f = 0 \/ s = n)

\* line 191 / 458: step != 0 and step % snapshot_freq == 0 or step == num_train_steps
IsCheckpointStep(s, f, n) == (s # 0 /\ s % f = 0) \/ s = n

\* line 172 / 436: step % eval_freq == 0
IsEvalStep(s, e) == s % e = 0

Configs ==
    [n_iters : 0..MaxIters, snapshot_freq : Freqs, eval_freq : Freqs,
     snapshot_sampling : BOOLEAN, resume : BOOLEAN]

\* no schedule, no step function, no sampler built yet
NoSde == [kind |-> "none", N |-> 0]
NoStepFn == [sde |-> NoSde]
NoSamplingFn == [sde |-> NoSde, eps |-> 0]

\* str.lower() on the values of config.training.sde
lower(k) ==
    CASE k = "VPSDE" -> "vpsde"
      [] k = "VESDE" -> "vesde"
      [] OTHER -> k

\* "Setup SDEs" with an unknown kind falling back to the VP schedule
setup_sde_DefaultVP(c) ==
    IF lower(c.sde) = "vesde"
    THEN [raised |-> FALSE, sde |-> [kind |-> "VESDE", N |-> c.num_scales],
          sampling_eps |-> VeSamplingEps]
    ELSE [raised |-> FALSE, sde |-> [kind |-> "VPSDE", N |-> c.num_scales],
          sampling_eps |-> VpSamplingEps]

\* "Setup SDEs" with the kind compared as it is spelt
setup_sde_CaseSensitive(c) ==
    IF c.sde = "vpsde"
    THEN [raised |-> FALSE, sde |-> [kind |-> "VPSDE", N |-> c.num_scales],
          sampling_eps |-> VpSamplingEps]
    ELSE IF c.sde = "vesde"
    THEN [raised |-> FALSE, sde |-> [kind |-> "VESDE", N |-> c.num_scales],
          sampling_eps |-> VeSamplingEps]
    ELSE [raised |-> TRUE, sde |-> NoSde, sampling_eps |-> 0]

\* lines 103-111 / 242-250 / 354-362: "Setup SDEs" on the config c
setup_sde(c) ==
    IF lower(c.sde) = "vpsde"
    THEN [raised |-> FALSE, sde |-> [kind |-> "VPSDE", N |-> c.num_scales],
          sampling_eps |-> VpSamplingEps]
    ELSE IF lower(c.sde) = "vesde"
    THEN [raised |-> FALSE, sde |-> [kind |-> "VESDE", N |-> c.num_scales],
          sampling_eps |-> VeSamplingEps]
    ELSE [raised |-> TRUE, sde |-> NoSde, sampling_eps |-> 0]

\* check_config without the assert on data.n_vocab
check_config_SixFields(config1, config2) ==
    IF /\ config1.sigma_min = config2.sigma_min
       /\ config1.sigma_max = config2.sigma_max
       /\ config1.sde = config2.sde
       /\ config1.continuous = config2.continuous
       /\ config1.centered = config2.centered
       /\ config1.max_node = config2.max_node
    THEN "None" ELSE "AssertionError"

\* lines 493-500: the seven asserts of check_config
check_config(config1, config2) ==
    IF /\ config1.sigma_min = config2.sigma_min
       /\ config1.sigma_max = config2.sigma_max
       /\ config1.sde = config2.sde
       /\ config1.continuous = config2.continuous
       /\ config1.centered = config2.centered
       /\ config1.max_node = config2.max_node
       /\ config1.n_vocab = config2.n_vocab
    THEN "None" ELSE "AssertionError"

\* np.ceil(a / b) cut down to the integer part of the quotient
ceil_div_Floor(a, b) == a \div b

\* line 285: int(np.ceil(config.eval.num_samples / config.eval.batch_size))
ceil_div(a, b) == IF a % b = 0 THEN a \div b ELSE (a \div b) + 1

\* line 296-297: the quantized sample of round r, batch_size descriptors
quantized_sample(r, batch_size) == [i \in 1..batch_size |-> <<r, i>>]

\* line 300: the slice lst[:n]
Take(lst, n) == SubSeq(lst, 1, IF Len(lst) < n THEN Len(lst) ELSE n)

\* a config: the training part t, the SDE kind and number of scales, and the
\* eval part; the fields check_config reads carry one fixed value each
MakeConfig(t, k, n, num_samples, batch_size) ==
    [n_iters |-> t.n_iters, snapshot_freq |-> t.snapshot_freq,
     eval_freq |-> t.eval_freq, snapshot_sampling |-> t.snapshot_sampling,
     resume |-> t.resume, sde |-> k, num_scales |-> n,
     sigma_min |-> 1, sigma_max |-> 50, continuous |-> TRUE,
     centered |-> TRUE, max_node |-> 8, n_vocab |-> 7,
     num_samples |-> num_samples, batch_size |-> batch_size]

\* the config a score network trained under c carries in its checkpoint
ScoreConfigOf(c) ==
    [sde |-> c.sde, num_scales |-> c.num_scales, sigma_min |-> c.sigma_min,
     sigma_max |-> c.sigma_max, continuous |-> c.continuous,
     centered |-> c.centered, max_node |-> c.max_node, n_vocab |-> c.n_vocab]

\* the configs a checkpoint at config.scorenet_ckpt_path may carry: that of c,
\* and configs off it in one field, in num_scales alone, in two fields
ScoreConfigs(c) ==
    LET m == ScoreConfigOf(c)
    IN  {m,
         [m EXCEPT !.sigma_min = @ + 1],
         [m EXCEPT !.sigma_max = @ + 1],
         [m EXCEPT !.sde = IF @ = "vpsde" THEN "VPSDE" ELSE "vpsde"],
         [m EXCEPT !.continuous = ~@],
         [m EXCEPT !.centered = ~@],
         [m EXCEPT !.max_node = @ + 1],
         [m EXCEPT !.n_vocab = @ + 1],
         [m EXCEPT !.num_scales = @ + 1],
         [m EXCEPT !.sigma_min = @ + 1, !.n_vocab = @ + 1]}

\* the configs of the training runs whose loop is followed in full
TrainConfigs == {MakeConfig(t, "vpsde", 1000, 1, 1) : t \in Configs}

\* the configs of the training runs that differ in the set-up: every SDE
\* kind, a loop of the single step 0
SetupConfigs ==
    {MakeConfig([n_iters |-> 0, snapshot_freq |-> 1, eval_freq |-> 1,
                 snapshot_sampling |-> b, resume |-> FALSE], k, n, 1, 1) :
        b \in BOOLEAN, k \in Kinds, n \in NumScales}

\* the configs of scorenet_evaluate
EvalConfigs ==
    {MakeConfig([n_iters |-> 0, snapshot_freq |-> 1, eval_freq |-> 1,
                 snapshot_sampling |-> FALSE, resume |-> FALSE],
                k, 1000, num_samples, batch_size) :
        k \in {"vpsde", "vesde"}, num_samples \in 1..MaxSamples,
        batch_size \in 1..MaxBatch}

\* the locals of a freshly called training function
Fresh ==
    /\ state' = InitState
    /\ collected_params' = 0
    /\ score_model' = "none"
    /\ initial_step' = 0
    /\ step' = 0
    /\ train_iter' = 0
    /\ batch' = 0
    /\ loader_i' = 0
    /\ is_best' = FALSE
    /\ min_test_loss' = MinTestLossInit
    /\ max_eval_p_corr' = MaxEvalPCorrInit
    /\ logs' = EmptyLogs
    /\ log_file' = <<>>
    /\ log_saved' = 0
    /\ ckpt_calls' = <<>>
    /\ train_steps' = <<>>
    /\ prev_best' = IF model_type = "scorenet"
                    THEN MinTestLossInit * Len(TestLoader) ELSE MaxEvalPCorrInit
    /\ evaluated' = FALSE
    /\ improved' = FALSE
    /\ sde' = NoSde
    /\ sampling_eps' = 0
    /\ train_step_fn' = NoStepFn
    /\ sampling_fn' = NoSamplingFn
    /\ num_sampling_rounds' = 0
    /\ round' = 0
    /\ all_samples' = <<>>
    /\ arch_list' = <<>>

\* train(config) with either key of run_train_dict, or evaluate(config) with
\* the one key of run_eval_dict
Init ==
    /\ mode \in {"train", "eval"}
    /\ model_type \in IF mode = "train" THEN ModelTypes ELSE {"scorenet"}
    /\ config \in IF mode = "train" THEN TrainConfigs \cup SetupConfigs
                  ELSE EvalConfigs
    /\ score_config \in
          IF mode = "eval"
          THEN {[ScoreConfigOf(config) EXCEPT !.sde = k, !.num_scales = n] :
                   k \in Kinds, n \in NumScales}
          ELSE IF model_type = "meta_surrogate" /\ config \in SetupConfigs
          THEN ScoreConfigs(config)
          ELSE {ScoreConfigOf(config)}
    /\ resume_file = NoCkpt
    /\ last_ckpt = NoCkpt
    /\ pc = "start"
    /\ state = InitState
    /\ collected_params = 0
    /\ score_model = "none"
    /\ initial_step = 0
    /\ step = 0
    /\ train_iter = 0
    /\ batch = 0
    /\ loader_i = 0
    /\ is_best = FALSE
    /\ min_test_loss = MinTestLossInit
    /\ max_eval_p_corr = MaxEvalPCorrInit
    /\ logs = EmptyLogs
    /\ log_file = <<>>
    /\ log_saved = 0
    /\ ckpt_calls = <<>>
    /\ train_steps = <<>>
    /\ prev_best = IF model_type = "scorenet"
                   THEN MinTestLossInit * Len(TestLoader) ELSE MaxEvalPCorrInit
    /\ evaluated = FALSE
    /\ improved = FALSE
    /\ sde = NoSde
    /\ sampling_eps = 0
    /\ train_step_fn = NoStepFn
    /\ sampling_fn = NoSamplingFn
    /\ num_sampling_rounds = 0
    /\ round = 0
    /\ all_samples = <<>>
    /\ arch_list = <<>>

\* ------------------------------------------------------------- actions --
\* Restore with the loop started at the tag of the checkpoint instead of at
\* the restored step counter
Restore_StartAtTag ==
    /\ pc = "start"
    /\ mode = "train"
    /\ state' = restore_checkpoint(resume_file, state, config.resume)
    /\ initial_step' = IF state'.step > 0 THEN state'.step - 1 ELSE 0
    /\ step' = initial_step'
    /\ pc' = "setup"
    /\ UNCHANGED <<Inputs, SetupLocals, EvalLocals, model_type, config, resume_file, last_ckpt, collected_params,
                   score_model, train_iter, batch, loader_i, is_best, min_test_loss,
                   max_eval_p_corr, logs, log_file, log_saved, ckpt_calls,
                   train_steps, prev_best, evaluated, improved>>

\* Restore with the checkpoint loaded whatever the resume flag says
Restore_IgnoreFlag ==
    /\ pc = "start"
    /\ mode = "train"
    /\ state' = restore_checkpoint(resume_file, state, TRUE)
    /\ initial_step' = state'.step
    /\ step' = state'.step
    /\ pc' = "setup"
    /\ UNCHANGED <<Inputs, SetupLocals, EvalLocals, model_type, config, resume_file, last_ckpt, collected_params,
                   score_model, train_iter, batch, loader_i, is_best, min_test_loss,
                   max_eval_p_corr, logs, log_file, log_saved, ckpt_calls,
                   train_steps, prev_best, evaluated, improved>>

\* Restore with the checkpoint directory emptied when it is set up
Restore_CleansCheckpointDir ==
    /\ pc = "start"
    /\ mode = "train"
    /\ state' = restore_checkpoint(resume_file, state, config.resume)
    /\ initial_step' = state'.step
    /\ step' = state'.step
    /\ last_ckpt' = NoCkpt
    /\ pc' = "setup"
    /\ UNCHANGED <<Inputs, SetupLocals, EvalLocals, model_type, config, resume_file, collected_params,
                   score_model, train_iter, batch, loader_i, is_best, min_test_loss,
                   max_eval_p_corr, logs, log_file, log_saved, ckpt_calls,
                   train_steps, prev_best, evaluated, improved>>

\* lines 89-92 and 133-154 (scorenet), 341-343 and 388-418 (meta-surrogate)
Restore ==
    /\ pc = "start"
    /\ mode = "train"
    /\ state' = restore_checkpoint(resume_file, state, config.resume)
    /\ initial_step' = state'.step
    /\ step' = state'.step
    /\ pc' = "setup"
    /\ UNCHANGED <<Inputs, SetupLocals, EvalLocals, model_type, config, resume_file, last_ckpt, collected_params,
                   score_model, train_iter, batch, loader_i, is_best, min_test_loss,
                   max_eval_p_corr, logs, log_file, log_saved, ckpt_calls,
                   train_steps, prev_best, evaluated, improved>>

\* lines 103-111 / 354-362: "Setup SDEs" of the training functions
SetupSDE ==
    /\ pc = "setup"
    /\ LET r == setup_sde(config)
       IN  /\ sde' = r.sde
           /\ sampling_eps' = r.sampling_eps
           /\ pc' = IF r.raised THEN "error" ELSE "build"
    /\ UNCHANGED <<RunInputs, LoopLocals, EvalLocals, score_model, logs,
                   log_file, log_saved, train_step_fn, sampling_fn>>

\* lines 113-140 / 364-397: the step functions and, with snapshot sampling,
\* the sampling function
BuildFunctions ==
    /\ pc = "build"
    /\ train_step_fn' = [sde |-> sde]
    /\ sampling_fn' = IF config.snapshot_sampling
                      THEN [sde |-> sde, eps |-> sampling_eps] ELSE NoSamplingFn
    /\ pc' = IF model_type = "meta_surrogate" /\ config.snapshot_sampling
             THEN "load" ELSE "loop"
    /\ UNCHANGED <<RunInputs, LoopLocals, EvalLocals, score_model, logs,
                   log_file, log_saved, sde, sampling_eps>>

\* lines 399-406: meta_surrogate_train loads the pre-trained score network
\* after check_config(score_config, config)
LoadScoreModel ==
    /\ pc = "load"
    /\ IF check_config(score_config, config) = "AssertionError"
       THEN /\ pc' = "error"
            /\ score_model' = score_model
       ELSE /\ score_model' = "ema"
            /\ pc' = "loop"
    /\ UNCHANGED <<RunInputs, LoopLocals, SetupLocals, EvalLocals, logs,
                   log_file, log_saved>>

\* lines 240-250: "Setup SDEs" of scorenet_evaluate, on the config stored
\* with the pre-trained score network
EvalSetupSDE ==
    /\ pc = "start"
    /\ mode = "eval"
    /\ LET r == setup_sde(score_config)
       IN  /\ sde' = r.sde
           /\ sampling_eps' = r.sampling_eps
           /\ pc' = IF r.raised THEN "error" ELSE "build_eval"
    /\ UNCHANGED <<RunInputs, LoopLocals, EvalLocals, score_model, logs,
                   log_file, log_saved, train_step_fn, sampling_fn>>

\* lines 252-292: the sampling function, the score network with its EMA
\* weights copied in, and the number of sampling rounds
EvalBuild ==
    /\ pc = "build_eval"
    /\ sampling_fn' = [sde |-> sde, eps |-> sampling_eps]
    /\ score_model' = "ema"
    /\ num_sampling_rounds' = ceil_div(config.num_samples, config.batch_size)
    /\ all_samples' = <<>>
    /\ round' = 0
    /\ pc' = "rounds"
    /\ UNCHANGED <<RunInputs, LoopLocals, logs, log_file, log_saved, sde,
                   sampling_eps, train_step_fn, arch_list>>

\* lines 294-297: one sampling round
SamplingRound ==
    /\ pc = "rounds"
    /\ round < num_sampling_rounds
    /\ all_samples' = all_samples \o quantized_sample(round + 1, config.batch_size)
    /\ round' = round + 1
    /\ UNCHANGED <<RunInputs, LoopLocals, SetupLocals, pc, score_model, logs,
                   log_file, log_saved, num_sampling_rounds, arch_list>>

\* lines 300-305: the samples cut to num_samples and handed to the metrics
EvalMetrics ==
    /\ pc = "rounds"
    /\ ~(round < num_sampling_rounds)
    /\ all_samples' = Take(all_samples, config.num_samples)
    /\ arch_list' = all_samples'
    /\ logs' = logger_update(logger_update(logger_update(logs, "r_valid"),
                                           "r_unique"), "r_novel")
    /\ pc' = "log_eval"
    /\ UNCHANGED <<RunInputs, LoopLocals, SetupLocals, score_model, log_file,
                   log_saved, num_sampling_rounds, round>>

\* lines 306-307: write_log(element, step=1) and save_log
EvalWriteLog ==
    /\ pc = "log_eval"
    /\ log_file' = Append(log_file, [step |-> 1, series |-> SampleKeys,
                                     written |-> SampleKeys \cap logs.keys])
    /\ log_saved' = log_saved + 1
    /\ pc' = "done"
    /\ UNCHANGED <<RunInputs, LoopLocals, SetupLocals, EvalLocals, score_model,
                   logs>>

\* the batch pull with the iterator re-created on StopIteration but no second
\* next(): the last batch is used again
next_batch_NoSecondNext(loader, it) ==
    IF it < Len(loader)
    THEN [batch |-> loader[it + 1], iter |-> it + 1]
    ELSE [batch |-> loader[Len(loader)], iter |-> 0]

\* lines 156-160 / 420-424: next(train_iter), and on StopIteration a new
\* iterator and its first batch; it is the number of batches the iterator gave
next_batch(loader, it) ==
    IF it < Len(loader)
    THEN [batch |-> loader[it + 1], iter |-> it + 1]
    ELSE [batch |-> loader[1], iter |-> 1]

\* the loop header with the end of the range left out: range(initial_step, n)
in_range_Exclusive(s, n) == s < n

\* line 155 / 419: for step in range(initial_step, num_train_steps + 1)
in_range(s, n) == s <= n

\* lines 155-163 / 419-427: the for header and the cyclic batch pull
NextBatch ==
    /\ pc = "loop"
    /\ in_range(step, config.n_iters)
    /\ batch' = next_batch(TrainLoader, train_iter).batch
    /\ train_iter' = next_batch(TrainLoader, train_iter).iter
    /\ pc' = "train"
    /\ UNCHANGED <<Inputs, SetupLocals, EvalLocals, model_type, config, resume_file, last_ckpt, state,
                   collected_params, score_model, initial_step, step, loader_i,
                   is_best, min_test_loss, max_eval_p_corr, logs, log_file,
                   log_saved, ckpt_calls, train_steps, prev_best, evaluated,
                   improved>>

\* TrainStep with the train step function applied twice to the batch
TrainStep_Twice ==
    /\ pc = "train"
    /\ \E g \in Weights :
          state' = step_fn(TRUE, step_fn(TRUE, state, batch, g, HasEma).state,
                           batch, g, HasEma).state
    /\ logs' = logger_update(logs, "training_loss")
    /\ train_steps' = Append(train_steps, step)
    /\ loader_i' = 0
    /\ pc' = IF IsEvalStep(step, config.eval_freq) THEN "eval" ELSE "ckpt"
    /\ UNCHANGED <<Inputs, SetupLocals, EvalLocals, model_type, config, resume_file, last_ckpt, collected_params,
                   score_model, initial_step, step, train_iter, batch, is_best,
                   min_test_loss, max_eval_p_corr, log_file, log_saved,
                   ckpt_calls, prev_best, evaluated, improved>>

\* TrainStep with the evaluation left out at step 0
TrainStep_NoEvalAtZero ==
    /\ pc = "train"
    /\ \E g \in Weights :
          state' = step_fn(TRUE, state, batch, g, HasEma).state
    /\ logs' = logger_update(logs, "training_loss")
    /\ train_steps' = Append(train_steps, step)
    /\ loader_i' = 0
    /\ pc' = IF step # 0 /\ IsEvalStep(step, config.eval_freq) THEN "eval" ELSE "ckpt"
    /\ UNCHANGED <<Inputs, SetupLocals, EvalLocals, model_type, config, resume_file, last_ckpt, collected_params,
                   score_model, initial_step, step, train_iter, batch, is_best,
                   min_test_loss, max_eval_p_corr, log_file, log_saved,
                   ckpt_calls, prev_best, evaluated, improved>>

\* lines 165-172 / 429-437: one training step, then the eval_freq test
TrainStep ==
    /\ pc = "train"
    /\ \E g \in Weights :
          state' = step_fn(TRUE, state, batch, g, HasEma).state
    /\ logs' = logger_update(logs, "training_loss")
    /\ train_steps' = Append(train_steps, step)
    /\ loader_i' = 0
    /\ pc' = IF IsEvalStep(step, config.eval_freq) THEN "eval" ELSE "ckpt"
    /\ UNCHANGED <<Inputs, SetupLocals, EvalLocals, model_type, config, resume_file, last_ckpt, collected_params,
                   score_model, initial_step, step, train_iter, batch, is_best,
                   min_test_loss, max_eval_p_corr, log_file, log_saved,
                   ckpt_calls, prev_best, evaluated, improved>>


\* EvalStep with train_step_fn called in place of eval_step_fn
EvalStep_TrainMode ==
    /\ pc = "eval"
    /\ loader_i < Len(EvalLoader)
    /\ \E g \in Weights :
          state' = step_fn(TRUE, state, EvalLoader[loader_i + 1], g, HasEma).state
    /\ logs' = logger_update(logs, "eval_loss")
    /\ loader_i' = loader_i + 1
    /\ UNCHANGED <<Inputs, SetupLocals, EvalLocals, model_type, config, resume_file, last_ckpt, pc,
                   collected_params, score_model, initial_step, step, train_iter,
                   batch, is_best, min_test_loss, max_eval_p_corr, log_file,
                   log_saved, ckpt_calls, train_steps, prev_best, evaluated,
                   improved>>

\* lines 173-179 / 438-446: the eval step on one batch of eval_loader
EvalStep ==
    /\ pc = "eval"
    /\ loader_i < Len(EvalLoader)
    /\ state' = step_fn(FALSE, state, EvalLoader[loader_i + 1], state.model, HasEma).state
    /\ logs' = logger_update(logs, "eval_loss")
    /\ loader_i' = loader_i + 1
    /\ UNCHANGED <<Inputs, SetupLocals, EvalLocals, model_type, config, resume_file, last_ckpt, pc,
                   collected_params, score_model, initial_step, step, train_iter,
                   batch, is_best, min_test_loss, max_eval_p_corr, log_file,
                   log_saved, ckpt_calls, train_steps, prev_best, evaluated,
                   improved>>

\* end of the eval_loader loop: on to test_loader (scorenet) or the correlations
EvalLoaderDone ==
    /\ pc = "eval"
    /\ loader_i = Len(EvalLoader)
    /\ loader_i' = 0
    /\ pc' = IF model_type = "scorenet" THEN "test" ELSE "best"
    /\ UNCHANGED <<Inputs, SetupLocals, EvalLocals, model_type, config, resume_file, last_ckpt, state,
                   collected_params, score_model, initial_step, step, train_iter,
                   batch, is_best, min_test_loss, max_eval_p_corr, logs, log_file,
                   log_saved, ckpt_calls, train_steps, prev_best, evaluated,
                   improved>>

\* lines 180-186: the eval step on one batch of test_loader
TestStep ==
    /\ pc = "test"
    /\ loader_i < Len(TestLoader)
    /\ LET r == step_fn(FALSE, state, TestLoader[loader_i + 1], state.model, HasEma)
       IN  /\ state' = r.state
           /\ logs' = logger_update_test(logs, r.loss)
    /\ loader_i' = loader_i + 1
    /\ UNCHANGED <<Inputs, SetupLocals, EvalLocals, model_type, config, resume_file, last_ckpt, pc,
                   collected_params, score_model, initial_step, step, train_iter,
                   batch, is_best, min_test_loss, max_eval_p_corr, log_file,
                   log_saved, ckpt_calls, train_steps, prev_best, evaluated,
                   improved>>

\* lines 187-188: if logger.logs['test_loss'].avg < min_test_loss: is_best = True
UpdateBestScorenet ==
    /\ pc = "test"
    /\ loader_i = Len(TestLoader)
    /\ is_best' = IF logs.test_sum < min_test_loss * logs.test_n THEN TRUE ELSE is_best
    /\ UNCHANGED <<min_test_loss, max_eval_p_corr>>
    /\ improved' = (logs.test_sum < prev_best)
    /\ prev_best' = IF logs.test_sum < prev_best THEN logs.test_sum ELSE prev_best
    /\ evaluated' = TRUE
    /\ pc' = "ckpt"
    /\ UNCHANGED <<Inputs, SetupLocals, EvalLocals, model_type, config, resume_file, last_ckpt, state,
                   collected_params, score_model, initial_step, step, train_iter,
                   batch, loader_i, logs, log_file, log_saved, ckpt_calls,
                   train_steps>>

\* lines 447-455: eval_p_corr > max_eval_p_corr sets is_best and the maximum
UpdateBestMeta ==
    /\ pc = "best"
    /\ LET eval_p_corr == PCorr(state.model)
       IN  /\ is_best' = IF eval_p_corr > max_eval_p_corr THEN TRUE ELSE is_best
           /\ max_eval_p_corr' = IF eval_p_corr > max_eval_p_corr
                                 THEN eval_p_corr ELSE max_eval_p_corr
           /\ improved' = (eval_p_corr > prev_best)
           /\ prev_best' = IF eval_p_corr > prev_best THEN eval_p_corr ELSE prev_best
    /\ logs' = logger_update(logger_update(logs, "eval_p_corr"), "eval_s_corr")
    /\ evaluated' = TRUE
    /\ pc' = "ckpt"
    /\ UNCHANGED <<Inputs, SetupLocals, EvalLocals, model_type, config, resume_file, last_ckpt, state,
                   collected_params, score_model, initial_step, step, train_iter,
                   batch, loader_i, min_test_loss, log_file, log_saved,
                   ckpt_calls, train_steps>>

\* Checkpoint with the file tagged by the step counter of state instead of
\* the loop step
Checkpoint_TagCounter ==
    /\ pc = "ckpt"
    /\ IsCheckpointStep(step, config.snapshot_freq, config.n_iters)
    /\ LET save_step == step \div config.snapshot_freq
       IN  last_ckpt' = save_checkpoint(state, state.step, save_step, is_best)
    /\ ckpt_calls' = Append(ckpt_calls, step)
    /\ pc' = IF config.snapshot_sampling THEN "sample" ELSE "log"
    /\ UNCHANGED <<Inputs, SetupLocals, EvalLocals, model_type, config, resume_file, state, collected_params,
                   score_model, initial_step, step, train_iter, batch, loader_i,
                   is_best, min_test_loss, max_eval_p_corr, logs, log_file,
                   log_saved, train_steps, prev_best, evaluated, improved>>

\* lines 190-193 / 457-461: the checkpoint of this step
Checkpoint ==
    /\ pc = "ckpt"
    /\ IsCheckpointStep(step, config.snapshot_freq, config.n_iters)
    /\ LET save_step == step \div config.snapshot_freq
       IN  last_ckpt' = save_checkpoint(state, step, save_step, is_best)
    /\ ckpt_calls' = Append(ckpt_calls, step)
    /\ pc' = IF config.snapshot_sampling THEN "sample" ELSE "log"
    /\ UNCHANGED <<Inputs, SetupLocals, EvalLocals, model_type, config, resume_file, state, collected_params,
                   score_model, initial_step, step, train_iter, batch, loader_i,
                   is_best, min_test_loss, max_eval_p_corr, logs, log_file,
                   log_saved, train_steps, prev_best, evaluated, improved>>

\* the condition of line 191 / 458 is false
NoCheckpoint ==
    /\ pc = "ckpt"
    /\ ~IsCheckpointStep(step, config.snapshot_freq, config.n_iters)
    /\ pc' = "log"
    /\ UNCHANGED <<Inputs, SetupLocals, EvalLocals, model_type, config, resume_file, last_ckpt, state,
                   collected_params, score_model, initial_step, step, train_iter,
                   batch, loader_i, is_best, min_test_loss, max_eval_p_corr, logs,
                   log_file, log_saved, ckpt_calls, train_steps, prev_best,
                   evaluated, improved>>

\* ema.store(parameters): keep a copy of the live weights
ema_store(st) == st.model

\* ema.copy_to(parameters): the live weights become the shadow
ema_copy_to(st) == [st EXCEPT !.model = st.ema]

\* ema.restore(parameters): the live weights become the stored copy
ema_restore(st, stored) == [st EXCEPT !.model = stored]

\* SnapshotSampleScorenet with ema.restore called after sampling
SnapshotSampleScorenet_Restore ==
    /\ pc = "sample"
    /\ model_type = "scorenet"
    /\ collected_params' = ema_store(state)
    /\ state' = ema_restore(ema_copy_to(state), ema_store(state))
    /\ logs' = logger_update(logger_update(logger_update(logs, "r_valid"),
                                           "r_unique"), "r_novel")
    /\ pc' = "log"
    /\ UNCHANGED <<Inputs, SetupLocals, EvalLocals, model_type, config, resume_file, last_ckpt, score_model,
                   initial_step, step, train_iter, batch, loader_i, is_best,
                   min_test_loss, max_eval_p_corr, log_file, log_saved,
                   ckpt_calls, train_steps, prev_best, evaluated, improved>>

\* lines 196-212: snapshot sampling of scorenet_train
SnapshotSampleScorenet ==
    /\ pc = "sample"
    /\ model_type = "scorenet"
    /\ collected_params' = ema_store(state)
    /\ state' = ema_copy_to(state)
    /\ logs' = logger_update(logger_update(logger_update(logs, "r_valid"),
                                           "r_unique"), "r_novel")
    /\ pc' = "log"
    /\ UNCHANGED <<Inputs, SetupLocals, EvalLocals, model_type, config, resume_file, last_ckpt, score_model,
                   initial_step, step, train_iter, batch, loader_i, is_best,
                   min_test_loss, max_eval_p_corr, log_file, log_saved,
                   ckpt_calls, train_steps, prev_best, evaluated, improved>>

\* lines 463-483: snapshot sampling of meta_surrogate_train, on the frozen score model
SnapshotSampleMeta ==
    /\ pc = "sample"
    /\ model_type = "meta_surrogate"
    /\ score_model' = "ema"
    /\ logs' = logger_update(logger_update(logger_update(logs, "r_valid"),
                                           "r_unique"), "r_novel")
    /\ pc' = "log"
    /\ UNCHANGED <<Inputs, SetupLocals, EvalLocals, model_type, config, resume_file, last_ckpt, state,
                   collected_params, initial_step, step, train_iter, batch,
                   loader_i, is_best, min_test_loss, max_eval_p_corr, log_file,
                   log_saved, ckpt_calls, train_steps, prev_best, evaluated,
                   improved>>

\* WriteLog with the full element dict handed to write_log on every step
WriteLog_FullElement ==
    /\ pc = "log"
    /\ LET series == element(model_type)
       IN  log_file' = Append(log_file, [step |-> step, series |-> series,
                                         written |-> series \cap logs.keys])
    /\ pc' = "reset"
    /\ UNCHANGED <<Inputs, SetupLocals, EvalLocals, model_type, config, resume_file, last_ckpt, state,
                   collected_params, score_model, initial_step, step, train_iter,
                   batch, loader_i, is_best, min_test_loss, max_eval_p_corr, logs,
                   log_saved, ckpt_calls, train_steps, prev_best, evaluated,
                   improved>>

\* lines 214-217 / 485-488: logger.write_log(element, step)
WriteLog ==
    /\ pc = "log"
    /\ LET series == IF IsEvalStep(step, config.eval_freq)
                     THEN element(model_type) ELSE {"training_loss"}
       IN  log_file' = Append(log_file, [step |-> step, series |-> series,
                                         written |-> series \cap logs.keys])
    /\ pc' = "reset"
    /\ UNCHANGED <<Inputs, SetupLocals, EvalLocals, model_type, config, resume_file, last_ckpt, state,
                   collected_params, score_model, initial_step, step, train_iter,
                   batch, loader_i, is_best, min_test_loss, max_eval_p_corr, logs,
                   log_saved, ckpt_calls, train_steps, prev_best, evaluated,
                   improved>>

\* line 219 / 490: logger.reset(), and the loop goes to the next step
Reset ==
    /\ pc = "reset"
    /\ logs' = EmptyLogs
    /\ step' = step + 1
    /\ pc' = "loop"
    /\ UNCHANGED <<Inputs, SetupLocals, EvalLocals, model_type, config, resume_file, last_ckpt, state,
                   collected_params, score_model, initial_step, train_iter, batch,
                   loader_i, is_best, min_test_loss, max_eval_p_corr, log_file,
                   log_saved, ckpt_calls, train_steps, prev_best, evaluated,
                   improved>>

\* line 221: scorenet_train leaves the loop and calls logger.save_log()
SaveLog ==
    /\ pc = "loop"
    /\ ~in_range(step, config.n_iters)
    /\ model_type = "scorenet"
    /\ log_saved' = log_saved + 1
    /\ pc' = "done"
    /\ UNCHANGED <<Inputs, SetupLocals, EvalLocals, model_type, config, resume_file, last_ckpt, state,
                   collected_params, score_model, initial_step, step, train_iter,
                   batch, loader_i, is_best, min_test_loss, max_eval_p_corr, logs,
                   log_file, ckpt_calls, train_steps, prev_best, evaluated,
                   improved>>

\* line 490: meta_surrogate_train leaves the loop and returns
Return ==
    /\ pc = "loop"
    /\ ~in_range(step, config.n_iters)
    /\ model_type = "meta_surrogate"
    /\ pc' = "done"
    /\ UNCHANGED <<Inputs, SetupLocals, EvalLocals, model_type, config, resume_file, last_ckpt, state,
                   collected_params, score_model, initial_step, step, train_iter,
                   batch, loader_i, is_best, min_test_loss, max_eval_p_corr, logs,
                   log_file, log_saved, ckpt_calls, train_steps, prev_best,
                   evaluated, improved>>

\* the process dies: nothing but the files in checkpoint_dir survives
Crash ==
    /\ pc \notin {"done", "error", "crashed"}
    /\ Fresh
    /\ pc' = "crashed"
    /\ UNCHANGED <<Inputs, model_type, resume_file, last_ckpt, config>>

\* the training function is called again, with or without config.resume; the
\* resume path holds no file or the most recent checkpoint
Rerun ==
    /\ pc \in {"done", "error", "crashed"}
    /\ \E r \in BOOLEAN : config' = [config EXCEPT !.resume = r]
    /\ resume_file' \in {NoCkpt, last_ckpt}
    /\ Fresh
    /\ pc' = "start"
    /\ UNCHANGED <<Inputs, model_type, last_ckpt>>

Next ==
    \/ Restore
    \/ SetupSDE
    \/ BuildFunctions
    \/ LoadScoreModel
    \/ EvalSetupSDE
    \/ EvalBuild
    \/ SamplingRound
    \/ EvalMetrics
    \/ EvalWriteLog
    \/ NextBatch
    \/ TrainStep
    \/ EvalStep
    \/ EvalLoaderDone
    \/ TestStep
    \/ UpdateBestScorenet
    \/ UpdateBestMeta
    \/ Checkpoint
    \/ NoCheckpoint
    \/ SnapshotSampleScorenet
    \/ SnapshotSampleMeta
    \/ WriteLog
    \/ Reset
    \/ SaveLog
    \/ Return
    \/ Crash
    \/ Rerun

Spec == Init /\ [][Next]_vars


\* the steps of the running process: everything but its death and a new call
NextRun ==
    \/ Restore
    \/ SetupSDE
    \/ BuildFunctions
    \/ LoadScoreModel
    \/ EvalSetupSDE
    \/ EvalBuild
    \/ SamplingRound
    \/ EvalMetrics
    \/ EvalWriteLog
    \/ NextBatch
    \/ TrainStep
    \/ EvalStep
    \/ EvalLoaderDone
    \/ TestStep
    \/ UpdateBestScorenet
    \/ UpdateBestMeta
    \/ Checkpoint
    \/ NoCheckpoint
    \/ SnapshotSampleScorenet
    \/ SnapshotSampleMeta
    \/ WriteLog
    \/ Reset
    \/ SaveLog
    \/ Return

\* the training function is called again with config.resume set and the most
\* recent checkpoint at the resume path
Resume ==
    /\ pc \in {"done", "error", "crashed"}
    /\ config' = [config EXCEPT !.resume = TRUE]
    /\ resume_file' = last_ckpt
    /\ Fresh
    /\ pc' = "start"
    /\ UNCHANGED <<Inputs, model_type, last_ckpt>>

NextLive ==
    \/ NextRun
    \/ Crash
    \/ Resume

\* a single thread of control: a process that is alive takes its next step
LiveSpec == Init /\ [][NextLive]_vars /\ WF_vars(NextRun)


\* ------------------------------------------------------------- claims --
\* number of save_checkpoint calls of this run made at loop step s
Calls(s) == Cardinality({i \in 1..Len(ckpt_calls) : ckpt_calls[i] = s})

\* loop step s of this run is past the checkpoint statement
PastCheckpoint(s) ==
    \/ s >= initial_step /\ s < step /\ pc \notin {"start", "crashed"}
    \/ s = step /\ pc \in {"sample", "log", "reset"}

\* the steps at which the loop of a fresh run writes a checkpoint
CheckpointSteps(f, n) == {s \in 0..n : IsCheckpointStep(s, f, n)}

\* the scenario snapshot_freq = 100, n_iters = 250, and step 0 for every n_iters
ScenarioSchedule ==
    /\ CheckpointSteps(100, 250) = {100, 200, 250}
    /\ \A f \in Freqs : 0 \in CheckpointSteps(f, 0)
    /\ \A f \in Freqs, n \in 1..MaxIters : 0 \notin CheckpointSteps(f, n)

\* C1: in a fresh run of either loop, save_checkpoint has been called exactly
\* once at every past loop step s with (s != 0 and s mod f = 0) or s = n, and
\* never at any other step; f = 100, n = 250 gives the steps {100, 200, 250}.
C1_CheckpointSchedule ==
    /\ initial_step = 0 =>
          \A s \in 0..config.n_iters :
              Calls(s) = IF PastCheckpoint(s)
                            /\ ((s # 0 /\ s % config.snapshot_freq = 0)
                                \/ s = config.n_iters)
                         THEN 1 ELSE 0
    /\ ScenarioSchedule

\* a fresh run that wrote a checkpoint at a multiple of snapshot_freq and one at
\* a final step that is no multiple of it
C1_Witness ==
    /\ pc = "done"
    /\ initial_step = 0
    /\ config.snapshot_freq = 2
    /\ config.n_iters = 3
    /\ ckpt_calls = <<2, 3>>


\* C2: in scorenet_train, at the checkpoint statement (so after every evaluation
\* and at every save_checkpoint call) is_best is true iff the mean test loss of
\* the latest evaluation was strictly below the minimum over the earlier
\* evaluations of the run (1e5 when there was none).
C2_IsBestIffTestLossImproved ==
    (model_type = "scorenet" /\ pc = "ckpt") => (is_best = improved)

\* C3: in meta_surrogate_train, at the checkpoint statement is_best is true iff
\* the Pearson correlation of the latest evaluation was strictly above the
\* maximum over the earlier evaluations of the run (-1 when there was none).
C3_IsBestIffPCorrImproved ==
    (model_type = "meta_surrogate" /\ pc = "ckpt") => (is_best = improved)

\* the run was resumed from a checkpoint file
Resumed == config.resume /\ resume_file # NoCkpt /\ pc \notin {"start", "crashed"}

\* the loop steps whose train step has run, when the loop started at step a
Executed(a) ==
    IF pc \in {"setup", "build", "load", "error", "loop", "train", "done"}
    THEN a .. (step - 1) ELSE a .. step

\* C4 as stated: a run resumed from the checkpoint saved at loop step S executes
\* step S first.
C4_ResumeStartsAtS ==
    Resumed => initial_step = resume_file.tag

\* C4, amended: the checkpoint saved at loop step S holds the effect of the S + 1
\* train steps 0..S; a run resumed from it executes step S + 1 first, and runs
\* the train step of each of S + 1, S + 2, ... once, in order, up to n_iters.
C4_ResumeStartsAfterS ==
    Resumed =>
        /\ resume_file.state.step = resume_file.tag + 1
        /\ resume_file.state.optimizer = resume_file.tag + 1
        /\ initial_step = resume_file.tag + 1
        /\ step >= initial_step
        /\ Len(train_steps) = Cardinality(Executed(resume_file.tag + 1))
        /\ \A i \in 1..Len(train_steps) : train_steps[i] = resume_file.tag + i
        /\ pc = "done" => step = IF initial_step > config.n_iters
                                 THEN initial_step ELSE config.n_iters + 1

\* a run resumed from the checkpoint of step 1 has finished steps 2 and 3
C4_Witness ==
    /\ Resumed
    /\ pc = "done"
    /\ resume_file.tag = 1
    /\ train_steps = <<2, 3>>


\* loop step s of this run is a checkpoint step
CheckpointAt(s) ==
    /\ s >= initial_step
    /\ (s # 0 /\ s % config.snapshot_freq = 0) \/ s = config.n_iters

\* loop step s of this run takes a snapshot sample in scorenet_train
SnapshotAt(s) ==
    model_type = "scorenet" /\ config.snapshot_sampling /\ CheckpointAt(s)

\* C5: in scorenet_train with snapshot sampling, the write_log call of every
\* checkpoint step writes the three sample rates of that step (the log record
\* exists when the accumulator is about to be reset).
C5_SampleRatesWritten ==
    (pc = "reset" /\ SnapshotAt(step)) =>
        /\ Len(log_file) > 0
        /\ log_file[Len(log_file)].step = step
        /\ SampleKeys \subseteq log_file[Len(log_file)].written

\* C6: a run of either loop that has completed its last step has called
\* save_log exactly once, and save_log is called nowhere before the end.
C6_LogFlushedAtEnd ==
    /\ pc = "done" => log_saved = 1
    /\ log_saved > 0 => pc = "done"

\* C7: inside the loop no action but the train step changes the model
\* parameters, optimizer state, EMA shadow or step counter of state.
C7_OnlyTrainStepMutates ==
    [][(pc \notin {"start", "train", "done", "error", "crashed"} /\ pc' # "crashed")
          => state' = state]_vars

\* C8: in scorenet_train with snapshot sampling, after the snapshot of a step the
\* live weights equal the EMA shadow, the stored pre-swap weights are the ones
\* in the checkpoint of that step, and the next train step starts from the EMA
\* weights.
C8_ModelIsEmaAfterSnapshot ==
    /\ (pc \in {"log", "reset"} /\ SnapshotAt(step)) =>
          /\ state.model = state.ema
          /\ last_ckpt.tag = step
          /\ last_ckpt.state.model = collected_params
          /\ last_ckpt.state.ema = state.ema
          /\ last_ckpt.state.step = state.step
    /\ (pc \in {"loop", "train"} /\ step > initial_step /\ SnapshotAt(step - 1)) =>
          /\ state.model = state.ema
          /\ last_ckpt.state.model = collected_params

\* the train step after a snapshot is about to start from EMA weights that
\* differ from the live weights the checkpoint holds
C8_Witness ==
    /\ pc = "train"
    /\ step > initial_step
    /\ SnapshotAt(step - 1)
    /\ collected_params # state.model
    /\ last_ckpt.state.model # state.model

C10_StepCounter ==
    /\ [](pc \notin {"start", "crashed"} =>
            state.step = initial_step + Len(train_steps))
    /\ [][/\ (pc = "train" /\ pc' # "crashed") => state'.step = state.step + 1
          /\ pc' \notin {"start", "crashed"} => state'.step >= state.step]_vars

\* a resumed run that started at counter 2 has finished at counter 4
C10_Witness ==
    /\ pc = "done"
    /\ Resumed
    /\ initial_step = 2
    /\ state.step = 4
    /\ Len(train_steps) = 2


\* the batches of m consecutive pulls from an iterator at position it
RECURSIVE Pulls(_, _, _)
Pulls(loader, it, m) ==
    IF m = 0 THEN <<>>
    ELSE LET r == next_batch(loader, it)
         IN  <<r.batch>> \o Pulls(loader, r.iter, m - 1)

\* loaders of 1, 2 and 3 batches, and the pulls of the 3-batch scenario
ScenarioPulls ==
    /\ Pulls(<<1, 2, 3>>, 0, 5) = <<1, 2, 3, 1, 2>>
    /\ \A loader \in {<<1>>, <<1, 2>>, <<1, 2, 3>>} :
          \A m \in 0..7 :
              /\ Len(Pulls(loader, 0, m)) = m
              /\ \A i \in 0..(m - 1) :
                    Pulls(loader, 0, m)[i + 1] = loader[(i % Len(loader)) + 1]

\* C11: the i-th pull (0-based) of a run returns batch i mod k of the k-batch
\* train loader: an exhausted iterator is re-created and gives its first batch;
\* 5 pulls from a 3-batch loader give batches 1, 2, 3, 1, 2.
C11_CyclicIterator ==
    /\ ScenarioPulls
    /\ pc = "train" =>
          batch = TrainLoader[(Len(train_steps) % Len(TrainLoader)) + 1]
    /\ (pc \in {"eval", "test", "best", "ckpt", "sample", "log", "reset"}) =>
          batch = TrainLoader[((Len(train_steps) - 1) % Len(TrainLoader)) + 1]

\* the pull after the loader was exhausted has returned the first batch again
C11_Witness ==
    /\ pc = "train"
    /\ Len(train_steps) = Len(TrainLoader)
    /\ train_iter = 1
    /\ batch = TrainLoader[1]


\* C12: every iteration makes exactly one write_log call and then exactly one
\* reset: the i-th record of the run is that of loop step initial_step + i - 1,
\* it carries the full element set when that step is a multiple of eval_freq
\* and the training-loss series alone otherwise, and the accumulator is empty
\* whenever an iteration starts.
C12_PerStepLogging ==
    mode = "train" =>
        /\ \A i \in 1..Len(log_file) :
              /\ log_file[i].step = initial_step + i - 1
              /\ log_file[i].series =
                     IF log_file[i].step % config.eval_freq = 0
                     THEN element(model_type) ELSE {"training_loss"}
        /\ pc \in {"loop", "train", "eval", "test", "best", "ckpt", "sample",
                   "log", "done"}
              => Len(log_file) = step - initial_step
        /\ pc = "reset" => Len(log_file) = step - initial_step + 1
        /\ pc \in {"loop", "train", "done"} => logs = EmptyLogs
        /\ pc \in {"eval", "test", "best", "ckpt", "sample", "log", "reset"} =>
              "training_loss" \in logs.keys

\* both kinds of record were written and the next iteration starts empty
C12_Witness ==
    /\ pc = "train"
    /\ logs = EmptyLogs
    /\ Len(log_file) = 2
    /\ log_file[1].series = element(model_type)
    /\ log_file[2].series = {"training_loss"}


\* C17: the resume is conditional on the flag.  With the flag off the run
\* starts at step 0 from the zero-initialised state even when a checkpoint
\* lies at the resume path; with the flag on and no checkpoint it starts
\* fresh at step 0 as well; with the flag on and a checkpoint the initial step
\* is the persisted step counter and the state is the persisted state.
C17_ResumeConditional ==
    pc \notin {"start", "crashed"} =>
        /\ ~config.resume => initial_step = 0
        /\ config.resume /\ resume_file = NoCkpt => initial_step = 0
        /\ config.resume /\ resume_file # NoCkpt =>
               initial_step = resume_file.state.step
        /\ train_steps = <<>> =>
               state = IF config.resume /\ resume_file # NoCkpt
                       THEN resume_file.state ELSE InitState

\* a checkpoint lies at the resume path, the flag is off, the loop starts at 0
C17_Witness ==
    /\ pc = "train"
    /\ ~config.resume
    /\ resume_file # NoCkpt
    /\ resume_file.state.step > 0
    /\ initial_step = 0
    /\ step = 0
    /\ state = InitState


RunSteps(a, n) == [i \in 1..(IF a > n THEN 0 ELSE n - a + 1) |-> a + i - 1]

\* C19: both loops terminate, and the run loop executes exactly one train step
\* for each step index in [initial_step, n_iters], in order: n_iters -
\* initial_step + 1 of them, n_iters + 1 on a fresh run, and none, with no
\* checkpoint written, when initial_step > n_iters.  A called training
\* function returns unless the process dies.
C19_RunLoopTerminates ==
    /\ [](pc = "done" /\ mode = "train" =>
            /\ train_steps = RunSteps(initial_step, config.n_iters)
            /\ initial_step <= config.n_iters =>
                   Len(train_steps) = config.n_iters - initial_step + 1
            /\ initial_step = 0 => Len(train_steps) = config.n_iters + 1
            /\ initial_step > config.n_iters =>
                   train_steps = <<>> /\ ckpt_calls = <<>>)
    /\ [](pc \notin {"start", "crashed", "done"} =>
            /\ Len(train_steps) <= config.n_iters + 1
            /\ \A i \in 1..Len(train_steps) : train_steps[i] = initial_step + i - 1)
    /\ (pc = "start") ~> (pc \in {"done", "error", "crashed"})

\* a fresh run returned after n_iters + 1 train steps
C19_Witness ==
    /\ pc = "done"
    /\ initial_step = 0
    /\ config.n_iters = MaxIters
    /\ Len(train_steps) = MaxIters + 1

\* a resumed run whose initial step lies past n_iters returned at once
C19_WitnessPastEnd ==
    /\ pc = "done"
    /\ initial_step > config.n_iters
    /\ train_steps = <<>>


\* the save index handed to the i-th save_checkpoint call of this run
SaveIndex(i) == ckpt_calls[i] \div config.snapshot_freq

\* C20: within one run no checkpoint is tagged with the save index of an
\* earlier checkpoint of the same run: the save indices of distinct checkpoint
\* steps are distinct, the final-step checkpoint included; the file on disk
\* carries the index of the last call.
C20_SaveIndexDistinct ==
    /\ ckpt_calls # <<>> =>
          /\ last_ckpt.tag = ckpt_calls[Len(ckpt_calls)]
          /\ last_ckpt.save_step = SaveIndex(Len(ckpt_calls))
    /\ \A i, j \in 1..Len(ckpt_calls) :
          ckpt_calls[i] # ckpt_calls[j] => SaveIndex(i) # SaveIndex(j)


\* the two configs differ in one of the seven fields of the compatibility check
Mismatch(c1, c2) ==
    \/ c1.sigma_min # c2.sigma_min
    \/ c1.sigma_max # c2.sigma_max
    \/ c1.sde # c2.sde
    \/ c1.continuous # c2.continuous
    \/ c1.centered # c2.centered
    \/ c1.max_node # c2.max_node
    \/ c1.n_vocab # c2.n_vocab

\* the SDE kind of config c is one of the two supported ones, in any case
Supported(c) == c.sde \in {"vpsde", "VPSDE", "vesde", "VESDE"}

\* the positions of a training function before its loop, and after an abort
BeforeLoop == {"start", "setup", "build", "load", "error", "crashed"}

\* C13 as stated: a training run with an unsupported SDE kind, and a
\* meta-surrogate run whose frozen score model's config mismatches the current
\* config, never reaches the loop: no train step runs and no checkpoint is
\* written; with an unsupported kind nothing is constructed.
C13_ConfigErrorsAbort ==
    mode = "train" =>
        /\ ~Supported(config) =>
               /\ pc \in {"start", "setup", "error", "crashed"}
               /\ train_steps = <<>> /\ ckpt_calls = <<>>
               /\ sde = NoSde /\ sampling_eps = 0
               /\ train_step_fn = NoStepFn /\ sampling_fn = NoSamplingFn
        /\ model_type = "meta_surrogate" /\ Mismatch(score_config, config) =>
               /\ pc \in BeforeLoop
               /\ train_steps = <<>> /\ ckpt_calls = <<>>

\* C13, amended: the mismatch aborts the meta-surrogate run when snapshot
\* sampling is enabled, the one case in which the frozen score model is loaded
\* and checked; an unsupported SDE kind aborts either loop and nothing is
\* constructed.  In both cases no train step has run and no checkpoint has
\* been written, and the run that has left the set-up has stopped in error.
C13_ConfigErrorsAbortWhenChecked ==
    mode = "train" =>
        /\ ~Supported(config) =>
               /\ pc \in {"start", "setup", "error", "crashed"}
               /\ train_steps = <<>> /\ ckpt_calls = <<>>
               /\ sde = NoSde /\ sampling_eps = 0
               /\ train_step_fn = NoStepFn /\ sampling_fn = NoSamplingFn
        /\ (/\ model_type = "meta_surrogate"
            /\ config.snapshot_sampling
            /\ Mismatch(score_config, config)) =>
               /\ pc \in BeforeLoop
               /\ train_steps = <<>> /\ ckpt_calls = <<>>
               /\ score_model = "none"
        /\ pc = "error" =>
               /\ train_steps = <<>> /\ ckpt_calls = <<>>
               /\ \/ ~Supported(config)
                  \/ /\ model_type = "meta_surrogate"
                     /\ config.snapshot_sampling
                     /\ Mismatch(score_config, config)

\* a meta-surrogate run with snapshot sampling stopped on a mismatching
\* vocabulary size, before its first train step
C13_Witness ==
    /\ pc = "error"
    /\ mode = "train"
    /\ model_type = "meta_surrogate"
    /\ config.snapshot_sampling
    /\ Supported(config)
    /\ score_config.n_vocab # config.n_vocab
    /\ train_steps = <<>>
    /\ ckpt_calls = <<>>

\* check_config on a config and the configs one field away from it
CheckConfigCases ==
    \A c \in SetupConfigs :
        LET m == ScoreConfigOf(c)
        IN  /\ check_config(m, c) = "None"
            /\ check_config([m EXCEPT !.num_scales = @ + 1], c) = "None"
            /\ check_config([m EXCEPT !.sigma_min = @ + 1], c) = "AssertionError"
            /\ check_config([m EXCEPT !.sigma_max = @ + 1], c) = "AssertionError"
            /\ check_config([m EXCEPT !.sde = "other"], c) = "AssertionError"
            /\ check_config([m EXCEPT !.continuous = ~@], c) = "AssertionError"
            /\ check_config([m EXCEPT !.centered = ~@], c) = "AssertionError"
            /\ check_config([m EXCEPT !.max_node = @ + 1], c) = "AssertionError"
            /\ check_config([m EXCEPT !.n_vocab = @ + 1], c) = "AssertionError"

\* C14: check_config raises whenever the two configs differ in one of the
\* seven checked fields and returns silently when they agree on all seven;
\* meta_surrogate_train runs it on the frozen score model's config before
\* that model is loaded, so a score model in use has passed the check.
C14_CheckConfig ==
    /\ [](pc = "load" => CheckConfigCases)
    /\ [](check_config(score_config, config) =
              IF Mismatch(score_config, config) THEN "AssertionError" ELSE "None")
    /\ []((mode = "train" /\ model_type = "meta_surrogate"
              /\ score_model # "none") => ~Mismatch(score_config, config))
    /\ [](pc \in {"start", "setup", "build", "load"} => score_model = "none")
    /\ [][pc = "load" /\ pc' # "crashed" =>
             IF Mismatch(score_config, config)
             THEN pc' = "error" /\ score_model' = "none"
             ELSE pc' = "loop" /\ score_model' = "ema"]_vars

\* the check stopped a run whose only difference is the vocabulary size
C14_Witness ==
    /\ pc = "error"
    /\ model_type = "meta_surrogate"
    /\ score_config.n_vocab # config.n_vocab
    /\ [score_config EXCEPT !.n_vocab = config.n_vocab] = ScoreConfigOf(config)
    /\ score_model = "none"


\* the config whose SDE fields the entry point reads: scorenet_evaluate takes
\* the one stored with the pre-trained score network
SdeConfig == IF mode = "eval" THEN score_config ELSE config

\* the "Setup SDEs" statement of the running function has been passed: a
\* supported kind, spelt in either case, does not stop the run there
SdeIsSetUp ==
    \/ pc \notin {"start", "setup", "error", "crashed"}
    \/ pc = "error" /\ Supported(SdeConfig)

\* 1e-3 and 1e-5 in units of 1e-5
EpsConstants == VpSamplingEps = 100 /\ VeSamplingEps = 1

\* C16: in scorenet_train, scorenet_evaluate and meta_surrogate_train, once
\* the SDE is set up the sampling epsilon is 1e-3 for the kind 'vpsde' and
\* 1e-5 for the kind 'vesde', whatever the case the kind is spelt in; the
\* schedule is of that kind with N the number of scales of the config read; a
\* sampler that was built carries that schedule and that epsilon.
C16_SamplingEps ==
    /\ pc = "start" => EpsConstants
    /\ SdeIsSetUp =>
          /\ Supported(SdeConfig)
          /\ SdeConfig.sde \in {"vpsde", "VPSDE"} =>
                 sde.kind = "VPSDE" /\ sampling_eps = 100
          /\ SdeConfig.sde \in {"vesde", "VESDE"} =>
                 sde.kind = "VESDE" /\ sampling_eps = 1
          /\ sde.N = SdeConfig.num_scales
    /\ sampling_fn # NoSamplingFn =>
          sampling_fn.sde = sde /\ sampling_fn.eps = sampling_eps
    /\ (pc \in {"sample", "rounds", "log_eval"} =>
          sampling_fn = [sde |-> sde, eps |-> sampling_eps])

\* scorenet_evaluate sampled with the variance-exploding schedule named in
\* capitals by the stored config, while the current config names the other kind
C16_Witness ==
    /\ mode = "eval"
    /\ pc = "done"
    /\ score_config.sde = "VESDE"
    /\ config.sde = "vpsde"
    /\ sampling_fn.eps = VeSamplingEps
    /\ sampling_fn.sde = [kind |-> "VESDE", N |-> score_config.num_scales]

\* the scenario num_samples = 37, batch_size = 16
RECURSIVE Rounds(_, _)
Rounds(r, batch_size) ==
    IF r = 0 THEN <<>>
    ELSE Rounds(r - 1, batch_size) \o quantized_sample(r, batch_size)

ScenarioSampling ==
    /\ ceil_div(37, 16) = 3
    /\ Len(Take(Rounds(ceil_div(37, 16), 16), 37)) = 37

\* C15: scorenet_evaluate runs ceil(num_samples / batch_size) sampling rounds,
\* the least number of rounds of batch_size descriptors that yields
\* num_samples of them, and hands the metric evaluator exactly the first
\* num_samples descriptors drawn; 37 and 16 give 3 rounds and 37 descriptors.
C15_SamplingRounds ==
    /\ pc = "start" => ScenarioSampling
    /\ pc \in {"rounds", "log_eval", "done"} /\ mode = "eval" =>
          /\ num_sampling_rounds * config.batch_size >= config.num_samples
          /\ (num_sampling_rounds - 1) * config.batch_size < config.num_samples
          /\ round <= num_sampling_rounds
    /\ pc = "rounds" => Len(all_samples) = round * config.batch_size
    /\ pc \in {"log_eval", "done"} /\ mode = "eval" =>
          /\ round = num_sampling_rounds
          /\ Len(arch_list) = config.num_samples
          /\ \A i \in 1..Len(arch_list) :
                 arch_list[i] = <<((i - 1) \div config.batch_size) + 1,
                                  ((i - 1) % config.batch_size) + 1>>

\* two rounds of three descriptors were drawn and cut to five
C15_Witness ==
    /\ mode = "eval"
    /\ pc = "done"
    /\ config.num_samples = 5
    /\ config.batch_size = 3
    /\ round = 2
    /\ Len(arch_list) = 5


\* C21: at the start of every loop iteration, of a fresh and of a resumed run,
\* the step counter of state equals the loop step; after the train step of
\* the iteration it is one ahead; so the save_checkpoint call of loop step s
\* tags the file with s and persists the counter s + 1.
C21_CounterIsLoopStep ==
    mode = "train" =>
        /\ pc \in {"setup", "build", "load", "loop", "train"} => state.step = step
        /\ pc \in {"eval", "test", "best", "ckpt", "sample", "log", "reset"} =>
              state.step = step + 1
        /\ ckpt_calls # <<>> =>
              /\ last_ckpt.tag = ckpt_calls[Len(ckpt_calls)]
              /\ last_ckpt.state.step = ckpt_calls[Len(ckpt_calls)] + 1
        /\ pc \in {"sample", "log", "reset"}
              /\ IsCheckpointStep(step, config.snapshot_freq, config.n_iters) =>
              /\ ckpt_calls # <<>>
              /\ last_ckpt.tag = step
              /\ last_ckpt.state.step = step + 1
        /\ last_ckpt # NoCkpt => last_ckpt.state.step = last_ckpt.tag + 1

\* a run resumed at counter 2 has just written the checkpoint of loop step 3
C21_Witness ==
    /\ Resumed
    /\ initial_step = 2
    /\ pc \in {"sample", "log"}
    /\ step = 3
    /\ ckpt_calls = <<2, 3>>
    /\ last_ckpt.tag = 3
    /\ last_ckpt.state.step = 4


\* the position that follows position p within an iteration of the loop
FollowsInOrder(p, q) ==
    CASE p = "train" -> q = IF step % config.eval_freq = 0 THEN "eval" ELSE "ckpt"
      [] p = "eval" -> q \in {"eval", IF model_type = "scorenet" THEN "test" ELSE "best"}
      [] p = "test" -> q \in {"test", "ckpt"}
      [] p = "best" -> q = "ckpt"
      [] p = "ckpt" -> q = IF ((step # 0 /\ step % config.snapshot_freq = 0)
                                  \/ step = config.n_iters)
                              /\ config.snapshot_sampling
                           THEN "sample" ELSE "log"
      [] p = "sample" -> q = "log"
      [] p = "log" -> q = "reset"
      [] p = "reset" -> q = "loop"
      [] OTHER -> TRUE

\* C22: within an iteration the actions come in the order train step,
\* evaluation (on multiples of eval_freq, step 0 included), save_checkpoint and
\* snapshot sampling (on checkpoint steps), write_log, reset; each happens at
\* its own position only; at a checkpoint of an evaluation step the evaluation
\* of that step is done and the flag handed to save_checkpoint is the one left
\* by it, true when that evaluation improved on the earlier ones.
C22_FixedOrder ==
    /\ [][pc' \notin {"crashed", "start"} =>
             /\ FollowsInOrder(pc, pc')
             /\ train_steps' # train_steps => pc = "train"
             /\ ckpt_calls' # ckpt_calls => pc = "ckpt"
             /\ (mode = "train" /\ log_file' # log_file) => pc = "log"
             /\ (pc = "ckpt" /\ ckpt_calls' # ckpt_calls) =>
                    /\ last_ckpt'.is_best = is_best
                    /\ step % config.eval_freq = 0 =>
                           /\ "eval_loss" \in logs.keys
                           /\ improved => last_ckpt'.is_best]_vars
    /\ [](pc \in {"ckpt", "sample", "log", "reset"} =>
             /\ "training_loss" \in logs.keys
             /\ "eval_loss" \in logs.keys <=> step % config.eval_freq = 0
             /\ step = 0 => "eval_loss" \in logs.keys
             /\ step % config.eval_freq = 0 => evaluated /\ (improved => is_best))
    /\ [](pc \in {"sample", "log", "reset"} =>
             (ckpt_calls # <<>> /\ ckpt_calls[Len(ckpt_calls)] = step) <=>
                 ((step # 0 /\ step % config.snapshot_freq = 0)
                    \/ step = config.n_iters))

\* step 2 is an evaluation step and a checkpoint step; its evaluation improved
\* and its checkpoint carries the flag
C22_Witness ==
    /\ pc = "log"
    /\ step = 2
    /\ config.eval_freq = 2
    /\ config.snapshot_freq = 2
    /\ "eval_loss" \in logs.keys
    /\ improved
    /\ last_ckpt.tag = 2
    /\ last_ckpt.is_best

=============================================================================
